---- MODULE Spec2Model ----
(***************************************************************************)
(* Model of the Istanbul healthcare accessibility scripts:                 *)
(*   src/src/spatial_analysis.py  (buffer_analysis,                        *)
(*        nearest_facility_analysis, calculate_accessibility_score,        *)
(*        generate_summary_statistics)                                     *)
(*   src/src/find_nearest.py      (find_nearest)                           *)
(*   src/src/data_collector.py    (classify_type)                          *)
(*                                                                         *)
(* Geometry is one-dimensional: a point is a coordinate on a line, a       *)
(* district polygon is a closed interval [lo, hi] whose boundary is        *)
(* {lo, hi} and whose interior is the open interval.  Floating point       *)
(* values are exact rationals extended with NaN and +/-inf, which is what  *)
(* the pandas division of the scoring step needs.                          *)
(***************************************************************************)
EXTENDS Integers, Sequences, FiniteSets, TLC

VARIABLES facilities, districts, df, op, outcome, joined, result, stats

vars == <<facilities, districts, df, op, outcome, joined, result, stats>>

(***************************************************************************)
(* Bounds of the checked instances.                                        *)
(***************************************************************************)
MaxCoord == 2
MaxFacilities == 1
MaxDistricts == 2
MaxRows == 3
MaxElements == 2

(***************************************************************************)
(* Floating point values: finite rationals n/d in lowest terms, NaN, inf.  *)
(***************************************************************************)
RECURSIVE Gcd(_, _)
Gcd(a, b) == IF b = 0 THEN a ELSE Gcd(b, a % b)

Abs(n) == IF n < 0 THEN -n ELSE n

Rat(n, d) ==
    IF d = 1 THEN [k |-> "num", n |-> n, d |-> 1]
    ELSE LET s == IF d < 0 THEN -1 ELSE 1
             g == Gcd(Abs(n), Abs(d))
         IN  [k |-> "num", n |-> (s * n) \div g, d |-> (s * d) \div g]

NaN == [k |-> "nan", n |-> 0, d |-> 1]

Inf(s) == [k |-> "inf", n |-> s, d |-> 1]

IntF(n) == Rat(n, 1)

IsNaN(x) == x.k = "nan"

IsNum(x) == x.k = "num"

Sign(n) == IF n > 0 THEN 1 ELSE IF n < 0 THEN -1 ELSE 0

FNeg(x) == IF IsNaN(x) THEN NaN ELSE [x EXCEPT !.n = -x.n]

FAdd(x, y) ==
    IF IsNaN(x) \/ IsNaN(y) THEN NaN
    ELSE IF IsNum(x) /\ IsNum(y) THEN Rat(x.n * y.d + y.n * x.d, x.d * y.d)
    ELSE IF IsNum(x) THEN y
    ELSE IF IsNum(y) THEN x
    ELSE IF x.n = y.n THEN x ELSE NaN

FSub(x, y) == FAdd(x, FNeg(y))

FMul(x, y) ==
    IF IsNaN(x) \/ IsNaN(y) THEN NaN
    ELSE IF IsNum(x) /\ IsNum(y) THEN Rat(x.n * y.n, x.d * y.d)
    ELSE IF Sign(x.n) * Sign(y.n) = 0 THEN NaN
    ELSE Inf(Sign(x.n) * Sign(y.n))

\* IEEE division as numpy performs it on a float column: x/0 is +/-inf for
\* x # 0 and NaN for x = 0; no exception is raised.
FDiv(x, y) ==
    IF IsNaN(x) \/ IsNaN(y) THEN NaN
    ELSE IF IsNum(x) /\ IsNum(y)
         THEN IF y.n # 0 THEN Rat(x.n * y.d, x.d * y.n)
              ELSE IF x.n = 0 THEN NaN ELSE Inf(Sign(x.n))
    ELSE IF IsNum(y) THEN (IF y.n = 0 THEN x ELSE Inf(Sign(x.n) * Sign(y.n)))
    ELSE IF IsNum(x) THEN IntF(0)
    ELSE NaN

\* x <= y; false whenever an operand is NaN.
FLe(x, y) ==
    IF IsNaN(x) \/ IsNaN(y) THEN FALSE
    ELSE IF IsNum(x) /\ IsNum(y) THEN x.n * y.d <= y.n * x.d
    ELSE IF IsNum(x) THEN y.n > 0
    ELSE IF IsNum(y) THEN x.n < 0
    ELSE x.n <= y.n

FLt(x, y) == FLe(x, y) /\ x # y

FAbs(x) == IF IsNaN(x) THEN NaN ELSE [x EXCEPT !.n = Abs(x.n)]

(***************************************************************************)
(* pandas helpers over a column of floats (a sequence).                    *)
(***************************************************************************)
\* Series.max(): NaN entries are skipped; an empty or all-NaN column gives NaN.
RECURSIVE SeriesMax(_)
SeriesMax(s) ==
    IF s = <<>> THEN NaN
    ELSE LET m == SeriesMax(Tail(s))
         IN  IF IsNaN(Head(s)) THEN m
             ELSE IF IsNaN(m) THEN Head(s)
             ELSE IF FLe(m, Head(s)) THEN Head(s) ELSE m

\* The missing value pandas puts in an object column.
Null == "<NA>"

Column(table, c) == [i \in 1..Len(table.rows) |-> table.rows[i][c]]

ColSet(table) == {table.columns[i] : i \in 1..Len(table.columns)}

\* df[c] = values: existing column overwritten in place, a new one appended.
WithColumn(table, c, vals) ==
    [table EXCEPT
       !.columns = IF c \in ColSet(table) THEN @ ELSE Append(@, c),
       !.rows = [i \in 1..Len(table.rows) |->
                   [k \in DOMAIN table.rows[i] \cup {c} |->
                      IF k = c THEN vals[i] ELSE table.rows[i][k]]]]

(***************************************************************************)
(* Geometry.  A geometry is a closed interval; a point has lo = hi.        *)
(***************************************************************************)
Geom(lo, hi) == [lo |-> lo, hi |-> hi]

Point(x) == Geom(x, x)

\* GeoSeries.centroid, computed in whatever reference system the
\* coordinates are in.
centroid(g) == Geom(FDiv(FAdd(g.lo, g.hi), IntF(2)), FDiv(FAdd(g.lo, g.hi), IntF(2)))

\* The geographic -> UTM 35N coordinate transformation: strictly increasing
\* and not affine, and applied vertex by vertex.
Project(x) == FAdd(FMul(IntF(1000), x), FMul(IntF(400), FMul(x, x)))

\* GeoDataFrame.to_crs("EPSG:32635"): a new frame, geometry reprojected.
to_crs(table) ==
    IF table.crs = "EPSG:32635" THEN table
    ELSE [table EXCEPT
            !.crs = "EPSG:32635",
            !.rows = [i \in 1..Len(table.rows) |->
                        [table.rows[i] EXCEPT
                           !.geometry = Geom(Project(@.lo), Project(@.hi))]]]

\* shapely predicate "within" for a point and a polygon: the point lies in
\* the interior of the polygon; a point on the boundary is not within.
within(p, poly) == FLt(poly.lo, p.lo) /\ FLt(p.hi, poly.hi)

\* point.distance(other point)
distance(p, q) == FAbs(FSub(p.lo, q.lo))

(***************************************************************************)
(* gpd.sjoin(left, right, how="left", predicate="within")                  *)
(***************************************************************************)
NonGeom(cols) == SelectSeq(cols, LAMBDA c : c # "geometry")

Overlap(left, right) == (ColSet(left) \cap ColSet(right)) \ {"geometry"}

Suffixed(c, both, suffix) == IF c \in both THEN c \o suffix ELSE c

SJoinColumns(left, right) ==
    LET both == Overlap(left, right)
        rc == NonGeom(right.columns)
    IN  [i \in 1..Len(left.columns) |-> Suffixed(left.columns[i], both, "_left")]
        \o <<"index_right">>
        \o [i \in 1..Len(rc) |-> Suffixed(rc[i], both, "_right")]

\* One output row: the left row, and the right row j (0 = no match, all
\* right-hand columns missing).
SJoinRow(left, right, i, j) ==
    LET both == Overlap(left, right)
        rcs == ColSet(right) \ {"geometry"}
    IN  [c \in {Suffixed(k, both, "_left") : k \in ColSet(left)} \cup {"index_right"}
                \cup {Suffixed(k, both, "_right") : k \in rcs} |->
           IF c = "index_right" THEN (IF j = 0 THEN NaN ELSE IntF(j - 1))
           ELSE IF \E k \in ColSet(left) : Suffixed(k, both, "_left") = c
                THEN left.rows[i][CHOOSE k \in ColSet(left) : Suffixed(k, both, "_left") = c]
           ELSE IF j = 0 THEN Null
           ELSE right.rows[j][CHOOSE k \in rcs : Suffixed(k, both, "_right") = c]]

Matches(left, right, i) ==
    {j \in 1..Len(right.rows) : within(left.rows[i].geometry, right.rows[j].geometry)}

RECURSIVE MatchRows(_, _, _, _)
MatchRows(left, right, i, j) ==
    IF j > Len(right.rows) THEN <<>>
    ELSE (IF j \in Matches(left, right, i) THEN <<SJoinRow(left, right, i, j)>> ELSE <<>>)
         \o MatchRows(left, right, i, j + 1)

\* how="left": every left row is kept; one output row per matching right
\* row, a single row with missing right-hand values when nothing matches.
RECURSIVE SJoinRows(_, _, _)
SJoinRows(left, right, i) ==
    IF i > Len(left.rows) THEN <<>>
    ELSE (IF Matches(left, right, i) = {}
          THEN <<SJoinRow(left, right, i, 0)>>
          ELSE MatchRows(left, right, i, 1))
         \o SJoinRows(left, right, i + 1)

sjoin(left, right) ==
    [crs |-> left.crs,
     columns |-> SJoinColumns(left, right),
     rows |-> SJoinRows(left, right, 1)]

(***************************************************************************)
(* nearest_facility_analysis(points_gdf, facilities)                       *)
(***************************************************************************)
\* facilities_proj.geometry.unary_union: the set of facility points.
unary_union(table) == {table.rows[i].geometry : i \in 1..Len(table.rows)}

\* A nearest_points that returns for an empty union instead of raising.
nearest_points_never_raises(point, facility_union) == FALSE

\* shapely.ops.nearest_points(point, facility_union) raises ValueError when
\* the union is the empty geometry.
nearest_points_raises(point, facility_union) == facility_union = {}

\* nearest_points(point, facility_union)[1]: a closest point of the union.
nearest_points(point, facility_union) ==
    CHOOSE q \in facility_union :
        \A r \in facility_union : FLe(distance(point, q), distance(point, r))

\* distance_m of one row of the loop; NaN stands for the distance to an
\* empty geometry, which the loop would produce only if nearest_points
\* returned instead of raising.
distance_m(point, facility_union) ==
    IF facility_union = {} THEN NaN
    ELSE distance(point, nearest_points(point, facility_union))

\* The result of the call: outcome "ok" and the returned frame, or the
\* exception that ends it.  ctor_accepts is the behaviour of
\* gpd.GeoDataFrame([], crs=...) on an empty result list, which has no
\* geometry column: releases of geopandas differ in whether that is an error.
nearest_facility_analysis(points_gdf, facs, ctor_accepts) ==
    LET points_proj == to_crs(points_gdf)
        facilities_proj == to_crs(facs)
        facility_union == unary_union(facilities_proj)
        n == Len(points_proj.rows)
        km == [i \in 1..n |->
                 FDiv(distance_m(points_proj.rows[i].geometry, facility_union), IntF(1000))]
    IN  IF \E i \in 1..n : nearest_points_raises(points_proj.rows[i].geometry, facility_union)
        THEN [outcome |-> "ValueError", table |-> <<>>]
        ELSE IF n = 0 /\ ~ctor_accepts
        THEN [outcome |-> "ValueError", table |-> <<>>]
        ELSE [outcome |-> "ok",
              table |-> WithColumn(points_gdf, "nearest_hospital_km", km)]

(***************************************************************************)
(* calculate_accessibility_score(districts, facilities)                    *)
(***************************************************************************)
NameCandidates == <<"name", "district_name", "ilce", "NAME", "ilce_adi">>

\* The for loop over the candidate names: the first candidate that is a
\* column of the district table, "" (None) when there is none.
DetectDistrictCol(table) ==
    LET hits == SelectSeq(NameCandidates, LAMBDA c : c \in ColSet(table))
    IN  IF hits = <<>> THEN "" ELSE Head(hits)

\* After the warning branch: the first column stands in for the name.
DistrictCol(table) ==
    IF DetectDistrictCol(table) = "" THEN table.columns[1]
    ELSE DetectDistrictCol(table)

\* joined.groupby(col).size(): rows with a missing key are left out.
GroupSize(table, col) ==
    [key \in {table.rows[i][col] : i \in 1..Len(table.rows)} \ {Null} |->
        Cardinality({i \in 1..Len(table.rows) : table.rows[i][col] = key})]

\* districts.merge(counts, left_on=col, right_on=col_right, how="left")
\* followed by fillna(0).astype(int) on facility_count.
MergeCounts(table, counts, col) ==
    LET right == col \o "_right"
    IN  [crs |-> table.crs,
         columns |-> table.columns \o <<right, "facility_count">>,
         rows |-> [i \in 1..Len(table.rows) |->
                    LET key == table.rows[i][col]
                    IN  [k \in DOMAIN table.rows[i] \cup {right, "facility_count"} |->
                           IF k = right
                           THEN (IF key \in DOMAIN counts THEN key ELSE Null)
                           ELSE IF k = "facility_count"
                           THEN (IF key \in DOMAIN counts THEN counts[key] ELSE 0)
                           ELSE table.rows[i][k]]]]

\* table.set_geometry(table.geometry.centroid): the centroid is taken on
\* the frame as it is, in the reference system it is in.
SetGeometryCentroid(table) ==
    [table EXCEPT !.rows = [i \in 1..Len(table.rows) |->
                              [table.rows[i] EXCEPT !.geometry = centroid(@)]]]

count_score(facility_count, max_count) ==
    FMul(FDiv(IntF(facility_count), max_count), IntF(50))

\* A slip that drops the "1 -": far districts score high.
distance_score_not_inverted(nearest_hospital_km, max_dist) ==
    FMul(FDiv(nearest_hospital_km, max_dist), IntF(50))

distance_score(nearest_hospital_km, max_dist) ==
    FMul(FSub(IntF(1), FDiv(nearest_hospital_km, max_dist)), IntF(50))

IntColumnMax(table, c) ==
    SeriesMax([i \in 1..Len(table.rows) |-> IntF(table.rows[i][c])])

Scored(table) ==
    LET n == Len(table.rows)
        max_count == IntColumnMax(table, "facility_count")
        max_dist == SeriesMax(Column(table, "nearest_hospital_km"))
        cs == [i \in 1..n |-> count_score(table.rows[i].facility_count, max_count)]
        ds == [i \in 1..n |-> distance_score(table.rows[i].nearest_hospital_km, max_dist)]
        t1 == WithColumn(table, "count_score", cs)
        t2 == WithColumn(t1, "distance_score", ds)
    IN  WithColumn(t2, "accessibility_score", [i \in 1..n |-> FAdd(cs[i], ds[i])])

\* The whole function: outcome, the local joined frame, the returned frame.
calculate_accessibility_score(dists, facs, ctor_accepts) ==
    LET districts_proj == to_crs(dists)
        facilities_proj == to_crs(facs)
        j == sjoin(facilities_proj, districts_proj)
        district_col == DistrictCol(dists)
        right == district_col \o "_right"
    IN  IF right \notin ColSet(j)
        THEN [outcome |-> "KeyError", joined |-> j, table |-> <<>>]
        ELSE LET counts == GroupSize(j, right)
                 merged == MergeCounts(dists, counts, district_col)
                 near == nearest_facility_analysis(SetGeometryCentroid(merged), facs, ctor_accepts)
             IN  IF near.outcome # "ok"
                 THEN [outcome |-> near.outcome, joined |-> j, table |-> <<>>]
                 ELSE [outcome |-> "ok", joined |-> j, table |-> Scored(near.table)]

(***************************************************************************)
(* generate_summary_statistics(districts)                                  *)
(***************************************************************************)
\* Series.idxmax() / idxmin(): the label of the first row holding the
\* extreme value, NaN skipped; 0 when there is no such row (the column is
\* empty or all NaN), where pandas raises or returns a label .loc rejects.
idxmax(s) ==
    IF \A i \in 1..Len(s) : IsNaN(s[i]) THEN 0
    ELSE CHOOSE i \in 1..Len(s) :
            /\ ~IsNaN(s[i])
            /\ \A j \in 1..Len(s) : ~IsNaN(s[j]) => FLe(s[j], s[i])
            /\ \A j \in 1..(i - 1) : s[j] # s[i]

idxmin(s) ==
    IF \A i \in 1..Len(s) : IsNaN(s[i]) THEN 0
    ELSE CHOOSE i \in 1..Len(s) :
            /\ ~IsNaN(s[i])
            /\ \A j \in 1..Len(s) : ~IsNaN(s[j]) => FLe(s[i], s[j])
            /\ \A j \in 1..(i - 1) : s[j] # s[i]

\* row.get("name", "N/A")
GetName(row) == IF "name" \in DOMAIN row THEN row["name"] ELSE "N/A"

RECURSIVE SumInts(_)
SumInts(s) == IF s = <<>> THEN 0 ELSE Head(s) + SumInts(Tail(s))

\* The returned dict; the mean, median and rounded distance entries are
\* not modelled.  Deterministic part of the call: raises iff idxmax is 0.
SummaryRaises(table) == idxmax(Column(table, "accessibility_score")) = 0

generate_summary_statistics(table) ==
    LET sc == Column(table, "accessibility_score")
    IN  [total_districts |-> Len(table.rows),
         total_facilities |-> SumInts(Column(table, "facility_count")),
         best_district |-> GetName(table.rows[idxmax(sc)]),
         worst_district |-> GetName(table.rows[idxmin(sc)])]

(***************************************************************************)
(* find_nearest(location, gdf, k)                                          *)
(***************************************************************************)
\* gdf.nsmallest(k, "distance"): the k rows of least distance, equal
\* distances in row order.
RECURSIVE NSmallestIdx(_, _, _)
NSmallestIdx(dist, left, k) ==
    IF k = 0 \/ left = {} THEN <<>>
    ELSE LET i == CHOOSE a \in left :
                     \A b \in left : \/ FLt(dist[a], dist[b])
                                     \/ (dist[a] = dist[b] /\ a <= b)
         IN  <<i>> \o NSmallestIdx(dist, left \ {i}, k - 1)

\* The frame after gdf['distance'] = gdf.geometry.distance(point); the
\* distance is taken on the coordinates as they are.
FindNearestAssign(location, gdf) ==
    WithColumn(gdf, "distance",
               [i \in 1..Len(gdf.rows) |-> distance(gdf.rows[i].geometry, Point(IntF(location)))])

\* nearest[['name', 'type', 'distance']]
FindNearestResult(location, gdf, k) ==
    LET g == FindNearestAssign(location, gdf)
        idx == NSmallestIdx(Column(g, "distance"), 1..Len(g.rows), k)
    IN  [crs |-> g.crs,
         columns |-> <<"name", "type", "distance">>,
         rows |-> [i \in 1..Len(idx) |->
                     [c \in {"name", "type", "distance"} |-> g.rows[idx[i]][c]]]]

(***************************************************************************)
(* buffer_analysis(facilities, [2, 5, 10])                                 *)
(***************************************************************************)
buffer_distances_km == <<2, 5, 10>>

RECURSIVE SortedPoints(_)
SortedPoints(S) ==
    IF S = {} THEN <<>>
    ELSE LET m == CHOOSE a \in S : \A b \in S : FLe(a.lo, b.lo)
         IN  <<m>> \o SortedPoints(S \ {m})

\* Measure of the dissolved union of the buffers of radius r around the
\* points of pts (sorted): each point adds its buffer less the overlap with
\* the buffer before it.
RECURSIVE UnionMeasure(_, _)
UnionMeasure(pts, r) ==
    IF pts = <<>> THEN IntF(0)
    ELSE IF Len(pts) = 1 THEN FMul(IntF(2), r)
    ELSE LET gap == distance(pts[1], pts[2])
             add == IF FLe(gap, FMul(IntF(2), r)) THEN gap ELSE FMul(IntF(2), r)
         IN  FAdd(add, UnionMeasure(Tail(pts), r))

\* The returned dict, one dissolved frame per distance, represented by its
\* buffer_km and the measure printed for it.
buffer_analysis(facs) ==
    LET facilities_proj == to_crs(facs)
        pts == SortedPoints(unary_union(facilities_proj))
    IN  [i \in 1..Len(buffer_distances_km) |->
           [buffer_km |-> buffer_distances_km[i],
            area_km2 |-> FDiv(UnionMeasure(pts, IntF(buffer_distances_km[i] * 1000)),
                              IntF(1000000))]]

(***************************************************************************)
(* classify_type(row) of fetch_healthcare_from_osm.  A Python string is a  *)
(* sequence of one-character strings.                                      *)
(***************************************************************************)
LowerCase == <<"a", "b", "c", "d", "e", "f", "g", "h", "i", "j", "k", "l", "m", "n", "o", "p", "q", "r", "s", "t", "u", "v", "w", "x", "y", "z">>

UpperCase == <<"A", "B", "C", "D", "E", "F", "G", "H", "I", "J", "K", "L", "M", "N", "O", "P", "Q", "R", "S", "T", "U", "V", "W", "X", "Y", "Z">>

IndexIn(c, alphabet) ==
    IF \E i \in 1..Len(alphabet) : alphabet[i] = c
    THEN CHOOSE i \in 1..Len(alphabet) : alphabet[i] = c
    ELSE 0

IsCased(c) == IndexIn(c, LowerCase) # 0 \/ IndexIn(c, UpperCase) # 0

ToUpper(c) == IF IndexIn(c, LowerCase) # 0 THEN UpperCase[IndexIn(c, LowerCase)] ELSE c

ToLower(c) == IF IndexIn(c, UpperCase) # 0 THEN LowerCase[IndexIn(c, UpperCase)] ELSE c

\* str.title(): a cased character is upper-cased when it follows an uncased
\* character or starts the string, lower-cased otherwise.
title(str) ==
    [i \in 1..Len(str) |->
        IF i = 1 \/ ~IsCased(str[i - 1]) THEN ToUpper(str[i]) ELSE ToLower(str[i])]

StrHospital == <<"H", "o", "s", "p", "i", "t", "a", "l">>

StrClinic == <<"C", "l", "i", "n", "i", "c">>

StrDoctor == <<"D", "o", "c", "t", "o", "r">>

StrOther == <<"O", "t", "h", "e", "r">>

TagHospital == <<"h", "o", "s", "p", "i", "t", "a", "l">>

TagClinic == <<"c", "l", "i", "n", "i", "c">>

TagDoctors == <<"d", "o", "c", "t", "o", "r", "s">>

\* A slip that tests the healthcare tag before the amenity tag.
classify_type_healthcare_first(row) ==
    IF row["healthcare"] # <<>> THEN title(row["healthcare"])
    ELSE IF row["amenity"] = TagHospital THEN StrHospital
    ELSE IF row["amenity"] = TagClinic THEN StrClinic
    ELSE IF row["amenity"] = TagDoctors THEN StrDoctor
    ELSE StrOther

classify_type(row) ==
    IF row["amenity"] = TagHospital THEN StrHospital
    ELSE IF row["amenity"] = TagClinic THEN StrClinic
    ELSE IF row["amenity"] = TagDoctors THEN StrDoctor
    ELSE IF row["healthcare"] # <<>> THEN title(row["healthcare"])
    ELSE StrOther

\* df["facility_type"] = df.apply(classify_type, axis=1)
ApplyClassify(table) ==
    WithColumn(table, "facility_type",
               [i \in 1..Len(table.rows) |-> classify_type(table.rows[i])])

(***************************************************************************)
(* Inputs.                                                                 *)
(***************************************************************************)
EmptyTable == [crs |-> "EPSG:4326", columns |-> <<"geometry">>, rows |-> <<>>]

NoResult == <<>>

\* Column layouts of the facility frames the analysis is given: the
\* collector's frame, and a frame read from a file that carries the
\* district of each facility.
FacilitySchemas ==
    {<<"osm_id", "name", "facility_type", "geometry">>,
     <<"name", "ilce", "geometry">>}

\* Column layouts of the frames find_nearest.py is given.
NearestSchemas ==
    {<<"name", "type", "geometry">>,
     <<"osm_id", "name", "facility_type", "geometry">>}

\* Column layouts of district frames: the sample frame of load_data.py and
\* files naming the district in another column.
DistrictSchemas ==
    {<<"name", "geometry">>,
     <<"ilce", "geometry">>,
     <<"osm_id", "geometry">>}

FacilityValue(c, i, x) ==
    IF c = "geometry" THEN Point(IntF(x))
    ELSE IF c = "osm_id" THEN "n" \o ToString(i)
    ELSE IF c = "name" THEN "F" \o ToString(i)
    ELSE IF c = "facility_type" THEN "Hospital"
    ELSE IF c = "type" THEN "hastane"
    ELSE "D1"

FacilityTable(schema, xs) ==
    [crs |-> "EPSG:4326",
     columns |-> schema,
     rows |-> [i \in 1..Len(xs) |->
                 [c \in {schema[k] : k \in 1..Len(schema)} |-> FacilityValue(c, i, xs[i])]]]

\* A district row: its identifier, unique in the frame, and its polygon
\* [lo, hi].
DistrictTable(schema, ds) ==
    [crs |-> "EPSG:4326",
     columns |-> schema,
     rows |-> [i \in 1..Len(ds) |->
                 [c \in {schema[k] : k \in 1..Len(schema)} |->
                    IF c = "geometry" THEN Geom(IntF(ds[i].lo), IntF(ds[i].hi))
                    ELSE "D" \o ToString(i)]]]

SeqsUpTo(S, n) == UNION {[1..m -> S] : m \in 0..n}

\* Facility points lie on the grid 0..2*MaxCoord; polygon vertices on its
\* even points, so that a polygon has grid points in its interior and
\* its centroid on the grid.
Coords == 0..(2 * MaxCoord)

Vertices == {2 * i : i \in 0..MaxCoord}

Polygons == {g \in [lo : Vertices, hi : Vertices] : g.lo < g.hi}

DistrictInputs == SeqsUpTo(Polygons, MaxDistricts)

AmenityTags ==
    {<<>>, TagHospital, TagClinic, TagDoctors, <<"p", "h", "a", "r", "m", "a", "c", "y">>}

HealthcareTags ==
    {<<>>, <<"h", "o", "s", "p", "i", "t", "a", "l">>, <<"d", "o", "c", "t", "o", "r">>, <<"x", "_", "r", "a", "y">>, <<"L", "A", "B">>}

CollectorTable(rows) ==
    [crs |-> "EPSG:4326", columns |-> <<"amenity", "healthcare">>, rows |-> rows]

Init ==
    /\ \E schema \in FacilitySchemas, xs \in SeqsUpTo(Coords, MaxFacilities) :
          facilities = FacilityTable(schema, xs)
    /\ \E schema \in DistrictSchemas, ds \in DistrictInputs :
          districts = DistrictTable(schema, ds)
    /\ df = CollectorTable(<<>>)
    /\ op = "none"
    /\ outcome = "none"
    /\ joined = NoResult
    /\ result = NoResult
    /\ stats = NoResult

InitFindNearest ==
    /\ \E schema \in NearestSchemas, xs \in SeqsUpTo(Coords, MaxRows) :
          facilities = FacilityTable(schema, xs)
    /\ districts = EmptyTable
    /\ df = CollectorTable(<<>>)
    /\ op = "none"
    /\ outcome = "none"
    /\ joined = NoResult
    /\ result = NoResult
    /\ stats = NoResult

InitCollector ==
    /\ facilities = EmptyTable
    /\ districts = EmptyTable
    /\ \E rows \in SeqsUpTo([amenity : AmenityTags, healthcare : HealthcareTags], MaxElements) :
          df = CollectorTable(rows)
    /\ op = "none"
    /\ outcome = "none"
    /\ joined = NoResult
    /\ result = NoResult
    /\ stats = NoResult

(***************************************************************************)
(* Operations.  Each run calls one analysis function on the caller's       *)
(* frames; the summary is computed from a successfully scored frame.       *)
(***************************************************************************)
\* What gpd.GeoDataFrame(results, crs=...) can do with the result list of
\* the loop over points_gdf: a non-empty list is accepted; an empty one is
\* accepted or refused.
CtorOutcomes(points_gdf) == IF Len(points_gdf.rows) = 0 THEN BOOLEAN ELSE {TRUE}

CalculateAccessibilityScore ==
    /\ op = "none"
    /\ \E ctor_accepts \in CtorOutcomes(districts) :
          \E r \in {calculate_accessibility_score(districts, facilities, ctor_accepts)} :
              /\ outcome' = r.outcome
              /\ joined' = r.joined
              /\ result' = r.table
    /\ op' = "calculate_accessibility_score"
    /\ UNCHANGED <<facilities, districts, df, stats>>

NearestFacilityAnalysis ==
    /\ op = "none"
    /\ \E ctor_accepts \in CtorOutcomes(districts) :
          \E r \in {nearest_facility_analysis(SetGeometryCentroid(districts), facilities,
                                               ctor_accepts)} :
              /\ outcome' = r.outcome
              /\ result' = r.table
    /\ op' = "nearest_facility_analysis"
    /\ UNCHANGED <<facilities, districts, df, joined, stats>>

BufferAnalysis ==
    /\ op = "none"
    /\ result' = buffer_analysis(facilities)
    /\ outcome' = "ok"
    /\ op' = "buffer_analysis"
    /\ UNCHANGED <<facilities, districts, df, joined, stats>>

FindNearest ==
    /\ op = "none"
    /\ \E location \in Coords, k \in 1..MaxRows :
          /\ facilities' = FindNearestAssign(location, facilities)
          /\ IF {"name", "type"} \subseteq ColSet(facilities)
             THEN /\ outcome' = "ok"
                  /\ result' = FindNearestResult(location, facilities, k)
             ELSE /\ outcome' = "KeyError"
                  /\ result' = NoResult
    /\ op' = "find_nearest"
    /\ UNCHANGED <<districts, df, joined, stats>>

GenerateSummaryStatistics ==
    /\ op = "calculate_accessibility_score"
    /\ outcome = "ok"
    /\ IF SummaryRaises(result)
       THEN /\ outcome' \in {"KeyError", "ValueError"}
            /\ stats' = NoResult
       ELSE /\ outcome' = "ok"
            /\ stats' = generate_summary_statistics(result)
    /\ op' = "generate_summary_statistics"
    /\ UNCHANGED <<facilities, districts, df, joined, result>>

ClassifyType ==
    /\ op = "none"
    /\ df' = ApplyClassify(df)
    /\ outcome' = "ok"
    /\ op' = "classify_type"
    /\ UNCHANGED <<facilities, districts, joined, result, stats>>

Next ==
    \/ CalculateAccessibilityScore
    \/ NearestFacilityAnalysis
    \/ BufferAnalysis
    \/ GenerateSummaryStatistics

NextFindNearest == FindNearest

NextCollector == ClassifyType

\* spatial_analysis.py
Spec == Init /\ [][Next]_vars

\* find_nearest.py
SpecFindNearest == InitFindNearest /\ [][NextFindNearest]_vars

\* data_collector.py

SpecCollector == InitCollector /\ [][NextCollector]_vars

(***************************************************************************)
(* Properties.                                                             *)
(***************************************************************************)
\* calculate_accessibility_score has returned a frame (result holds it).
ScoredOK ==
    \/ op = "calculate_accessibility_score" /\ outcome = "ok"
    \/ op = "generate_summary_statistics"

\* nearest_facility_analysis, called directly or by the scoring, has
\* returned a frame.
Returned ==
    \/ op = "nearest_facility_analysis" /\ outcome = "ok"
    \/ ScoredOK

\* The column of the joined frame that holds the facility's name.
JoinedNameCol == Suffixed("name", Overlap(facilities, districts), "_left")

\* The districts facility i was joined to (0-based labels as index_right).
AssignedTo(i) ==
    {j \in 1..Len(districts.rows) :
        \E r \in 1..Len(joined.rows) :
            /\ joined.rows[r][JoinedNameCol] = facilities.rows[i]["name"]
            /\ joined.rows[r]["index_right"] = IntF(j - 1)}

Unassigned == {i \in 1..Len(facilities.rows) : AssignedTo(i) = {}}

UniqueIds ==
    \A a, b \in 1..Len(districts.rows) :
        districts.rows[a][DistrictCol(districts)] = districts.rows[b][DistrictCol(districts)]
            => a = b

\* C1: after calculate_accessibility_score, for districts with unique
\* identifiers, the facility counts of all districts plus the number of
\* facilities assigned to no district add up to the number of facilities.
C1_CountsPlusUnassignedIsTotal ==
    (ScoredOK /\ UniqueIds) =>
        SumInts(Column(result, "facility_count")) + Cardinality(Unassigned)
            = Len(facilities.rows)

\* Districts a and b are adjacent with the shared boundary point at x.
SharedBoundary(a, b, x) ==
    /\ a # b
    /\ districts.rows[a].geometry.hi = x
    /\ districts.rows[b].geometry.lo = x

\* C2: a facility lying exactly on the boundary shared by two adjacent
\* districts is counted in exactly one of the two.
C2_BoundaryFacilityInExactlyOne ==
    ScoredOK =>
        \A i \in 1..Len(facilities.rows) : \A a, b \in 1..Len(districts.rows) :
            SharedBoundary(a, b, facilities.rows[i].geometry.lo)
                => Cardinality(AssignedTo(i) \cap {a, b}) = 1

\* Largest facility_count / nearest_hospital_km of the returned frame, read
\* off the frame's rows.
MaxCountOf(table) ==
    CHOOSE m \in {table.rows[i].facility_count : i \in 1..Len(table.rows)} :
        \A i \in 1..Len(table.rows) : table.rows[i].facility_count <= m

MaxDistOf(table) ==
    CHOOSE m \in {table.rows[i].nearest_hospital_km : i \in 1..Len(table.rows)} :
        \A i \in 1..Len(table.rows) : FLe(table.rows[i].nearest_hospital_km, m)

NonDegenerate(table) ==
    /\ Len(table.rows) > 0
    /\ MaxCountOf(table) > 0
    /\ MaxDistOf(table).n > 0

\* score = (count / mc) * 50 + (1 - km / md) * 50, with the divisions
\* multiplied out.
ScoreIsFormula(row, mc, md) ==
    LET sc == row.accessibility_score
        km == row.nearest_hospital_km
    IN  /\ IsNum(sc)
        /\ sc.n * (mc * md.n * km.d)
             = sc.d * (50 * row.facility_count * md.n * km.d
                        + 50 * mc * (md.n * km.d - km.n * md.d))

C4_ZeroCountsGiveZeroCountScore ==
    (ScoredOK /\ Len(result.rows) > 0 /\ MaxCountOf(result) = 0) =>
        \A i \in 1..Len(result.rows) :
            /\ result.rows[i].count_score = IntF(0)
            /\ result.rows[i].accessibility_score = result.rows[i].distance_score

\* C5: when the largest nearest_hospital_km is 0, distance_score is 50 for
\* every district.
C5_ZeroDistancesGiveFullDistanceScore ==
    (ScoredOK /\ Len(result.rows) > 0 /\ MaxDistOf(result) = IntF(0)) =>
        \A i \in 1..Len(result.rows) : result.rows[i].distance_score = IntF(50)

NoNaNDistance ==
    \A i \in 1..Len(result.rows) : ~IsNaN(result.rows[i].nearest_hospital_km)

\* C6 as claimed: with an empty facility set the distance computation
\* never returns; it ends in an error.
C6_EmptyFacilitiesAlwaysFail ==
    Len(facilities.rows) = 0 => ~Returned

\* C6: with an empty facility set the distance computation ends in an
\* error whenever there is a point to measure from; it returns only for an
\* empty point table, and no returned row has a NaN nearest_hospital_km.
C6_EmptyFacilitiesFailOrNoRows ==
    (Len(facilities.rows) = 0 /\ op \in {"nearest_facility_analysis",
                                        "calculate_accessibility_score",
                                        "generate_summary_statistics"}) =>
        /\ Len(districts.rows) > 0 => ~Returned
        /\ Returned => (Len(result.rows) = 0 /\ NoNaNDistance)

\* nearest_facility_analysis was run on points with no facility and failed.
C6_Witness ==
    /\ op = "nearest_facility_analysis"
    /\ Len(facilities.rows) = 0
    /\ Len(districts.rows) > 0
    /\ outcome = "ValueError"

\* C7: when the district table (of at least one district) has none of the
\* recognised name columns the scoring run aborts; it returns no scored
\* frame.
C7_NoNameColumnAborts ==
    (DetectDistrictCol(districts) = "" /\ Len(districts.rows) > 0) => ~ScoredOK

\* First row of the returned frame whose score is the largest / smallest.
FirstBest(table) ==
    CHOOSE i \in 1..Len(table.rows) :
        /\ \A j \in 1..Len(table.rows) :
              FLe(table.rows[j].accessibility_score, table.rows[i].accessibility_score)
        /\ \A j \in 1..(i - 1) :
              table.rows[j].accessibility_score # table.rows[i].accessibility_score

FirstWorst(table) ==
    CHOOSE i \in 1..Len(table.rows) :
        /\ \A j \in 1..Len(table.rows) :
              FLe(table.rows[i].accessibility_score, table.rows[j].accessibility_score)
        /\ \A j \in 1..(i - 1) :
              table.rows[j].accessibility_score # table.rows[i].accessibility_score

HasBest(table) ==
    \E i \in 1..Len(table.rows) : \A j \in 1..Len(table.rows) :
        FLe(table.rows[j].accessibility_score, table.rows[i].accessibility_score)

Primary == {TagHospital, TagClinic, TagDoctors}

SameLetter(a, b) ==
    \/ a = b
    \/ IndexIn(a, LowerCase) # 0 /\ IndexIn(a, LowerCase) = IndexIn(b, UpperCase)
    \/ IndexIn(a, UpperCase) # 0 /\ IndexIn(a, UpperCase) = IndexIn(b, LowerCase)

\* t is str in title case: the same letters, a cased character in upper
\* case exactly when it starts a word.
IsTitleOf(t, str) ==
    /\ Len(t) = Len(str)
    /\ \A i \in 1..Len(str) :
          /\ SameLetter(t[i], str[i])
          /\ IsCased(str[i]) =>
                ((IndexIn(t[i], UpperCase) # 0) <=> (i = 1 \/ ~IsCased(str[i - 1])))

\* C8: classify_type gives every row exactly one type, by the precedence
\* hospital, clinic, doctor, title-cased healthcare tag, Other.
C8_ClassifyPrecedence ==
    op = "classify_type" =>
        \A i \in 1..Len(df.rows) :
            LET r == df.rows[i]
                ft == r["facility_type"]
            IN  /\ "facility_type" \in DOMAIN r
                /\ r["amenity"] = TagHospital => ft = StrHospital
                /\ r["amenity"] = TagClinic => ft = StrClinic
                /\ r["amenity"] = TagDoctors => ft = StrDoctor
                /\ (r["amenity"] \notin Primary /\ r["healthcare"] # <<>>)
                      => IsTitleOf(ft, r["healthcare"])
                /\ (r["amenity"] \notin Primary /\ r["healthcare"] = <<>>)
                      => ft = StrOther

\* A row tagged hospital that also carries a healthcare sub-type, and a
\* row with no tag at all, have been classified.
C8_Witness ==
    /\ op = "classify_type"
    /\ \E i \in 1..Len(df.rows) :
          /\ df.rows[i]["amenity"] = TagHospital
          /\ df.rows[i]["healthcare"] \notin {<<>>, TagHospital}
          /\ df.rows[i]["facility_type"] = StrHospital
    /\ \E i \in 1..Len(df.rows) :
          /\ df.rows[i]["amenity"] = <<>>
          /\ df.rows[i]["healthcare"] = <<>>
          /\ df.rows[i]["facility_type"] = StrOther

\* C9: for a frame the scoring returns for districts named by a
\* recognised column, with a score for every district, the summary reports
\* the identifier of the first district of largest score as best_district
\* and of the first district of smallest score as worst_district.
C9_BestWorstAreFirstExtremes ==
    (/\ op = "generate_summary_statistics"
     /\ DetectDistrictCol(districts) # ""
     /\ HasBest(result)) =>
        /\ outcome = "ok"
        /\ stats.best_district
             = result.rows[FirstBest(result)][DistrictCol(districts)]
        /\ stats.worst_district
             = result.rows[FirstWorst(result)][DistrictCol(districts)]

\* C10: no analysis operation changes the frames the caller passed in.
C10_InputsUnchanged ==
    [][facilities' = facilities /\ districts' = districts]_vars

\* Distance in km from the centroid of district i, taken on the polygon
\* as reprojected to the metric system, to the nearest facility.
ProjectedCentroidKm(i) ==
    FDiv(distance_m(centroid(to_crs(districts).rows[i].geometry),
                    unary_union(to_crs(facilities))),
         IntF(1000))

\* C11: the centroid that enters the nearest-facility distance of a
\* district is the centroid of the reprojected polygon, so that
\* nearest_hospital_km is the distance measured from that centroid.
C11_CentroidOfProjectedPolygon ==
    ScoredOK =>
        \A i \in 1..Len(result.rows) :
            result.rows[i].nearest_hospital_km = ProjectedCentroidKm(i)

\* C12: whichever recognised name column the scoring selects (for frames
\* that have rows), the column it groups the joined frame by (the name
\* with the suffix _right) is a column of the join result, and the count
\* step does not fail.
C12_GroupColumnExists ==
    (/\ op = "calculate_accessibility_score"
     /\ DetectDistrictCol(districts) # ""
     /\ Len(districts.rows) > 0
     /\ Len(facilities.rows) > 0) =>
        /\ (DetectDistrictCol(districts) \o "_right") \in ColSet(joined)
        /\ outcome # "KeyError"

====
